---- MODULE Spec2Model ----
(***************************************************************************)
(* A model of express-ipfilter (src/src/ipfilter.js): the middleware that  *)
(* ipfilter(ips, opts) returns, with getClientIp, matchClientIp, testIp,   *)
(* testExplicitIp, testCidrBlock, testRange and error.                     *)
(*                                                                         *)
(* JavaScript strings are sequences of one-character strings, so that      *)
(* split, indexOf, the regular expressions of the `ip` package and         *)
(* toLowerCase are computed character by character.  The value undefined   *)
(* is the one-element sequence Undefined, whose element is no character.   *)
(* Unsigned 32-bit integers (ip.toLong) are pairs <<hi, lo>> of 16-bit     *)
(* halves, so that the 32-bit width of `<<=` and `>>> 0` is kept.          *)
(*                                                                         *)
(* The packages the file requires are modelled by what they compute:       *)
(* lodash 3 (_.invoke calls the function with each element as `this`,      *)
(* _.some and _.every test truthiness), ip (isV4Format and isV6Format are  *)
(* anchored regular expressions, toLong folds the dot-separated parts) and *)
(* range_check (validRange, inRange on IPv4 CIDR blocks).                  *)
(***************************************************************************)
EXTENDS Integers, Sequences, FiniteSets, TLC

(* ------------------------------------------------------------------ *)
(* Bounds of the model                                                 *)
(* ------------------------------------------------------------------ *)

\* The longest rule list a rule source returns.
MaxRules == 2

(* ------------------------------------------------------------------ *)
(* Strings                                                             *)
(* ------------------------------------------------------------------ *)

Undefined == << "undefined" >>

EmptyString == << >>

Digits == {"0", "1", "2", "3", "4", "5", "6", "7", "8", "9"}

HexLetters == {"a", "b", "c", "d", "e", "f", "A", "B", "C", "D", "E", "F"}

DigitVal(c) ==
  CASE c = "0" -> 0 [] c = "1" -> 1 [] c = "2" -> 2 [] c = "3" -> 3
    [] c = "4" -> 4 [] c = "5" -> 5 [] c = "6" -> 6 [] c = "7" -> 7
    [] c = "8" -> 8 [] c = "9" -> 9

\* s.substring(i - 1, j - 1): the characters at 1-based positions i .. j-1.
Slice(s, i, j) == SubSeq(s, i, j - 1)

\* Whether sub occurs in s at 1-based position i.
OccursAt(s, sub, i) ==
  /\ i >= 1
  /\ i + Len(sub) - 1 <= Len(s)
  /\ \A k \in 1..Len(sub) : s[i + k - 1] = sub[k]

RECURSIVE IndexFrom(_, _, _)
\* The first 1-based position at or after i where sub occurs in s, 0 when
\* there is none.
IndexFrom(s, sub, i) ==
  IF i + Len(sub) - 1 > Len(s) THEN 0
  ELSE IF OccursAt(s, sub, i) THEN i
  ELSE IndexFrom(s, sub, i + 1)

\* s.indexOf(sub) + 1: the first 1-based position of sub in s, 0 when absent.
IndexOf(s, sub) == IndexFrom(s, sub, 1)

\* The pieces of s.split(sep) when sep first occurs at position i (0: never).
RECURSIVE Split(_, _)
SplitAt(s, sep, i) ==
  IF i = 0 THEN << s >>
  ELSE << Slice(s, 1, i) >> \o Split(Slice(s, i + Len(sep), Len(s) + 1), sep)

\* s.split(sep), for a non-empty separator.
Split(s, sep) == SplitAt(s, sep, IndexOf(s, sep))

RECURSIVE Join(_, _)
\* parts.join(sep); an undefined element is rendered as the empty string.
Join(parts, sep) ==
  IF Len(parts) = 0 THEN EmptyString
  ELSE LET head == IF parts[1] = Undefined THEN EmptyString ELSE parts[1]
       IN  IF Len(parts) = 1 THEN head
           ELSE head \o sep \o Join(Tail(parts), sep)

LowerChar(c) ==
  CASE c = "A" -> "a" [] c = "B" -> "b" [] c = "C" -> "c" [] c = "D" -> "d"
    [] c = "E" -> "e" [] c = "F" -> "f" [] c = "G" -> "g" [] c = "H" -> "h"
    [] c = "I" -> "i" [] c = "J" -> "j" [] c = "K" -> "k" [] c = "L" -> "l"
    [] c = "M" -> "m" [] c = "N" -> "n" [] c = "O" -> "o" [] c = "P" -> "p"
    [] c = "Q" -> "q" [] c = "R" -> "r" [] c = "S" -> "s" [] c = "T" -> "t"
    [] c = "U" -> "u" [] c = "V" -> "v" [] c = "W" -> "w" [] c = "X" -> "x"
    [] c = "Y" -> "y" [] c = "Z" -> "z" [] OTHER -> c

\* String.prototype.toLowerCase.
ToLowerCase(s) == [k \in 1..Len(s) |-> LowerChar(s[k])]

RECURSIVE DigitRun(_, _)
\* The number of decimal digits of s from position i on, up to the first
\* character that is none.
DigitRun(s, i) ==
  IF i <= Len(s) /\ s[i] \in Digits THEN 1 + DigitRun(s, i + 1) ELSE 0

RECURSIVE BlankRun(_, _)
\* The number of blanks of s from position i on.
BlankRun(s, i) ==
  IF i <= Len(s) /\ s[i] = " " THEN 1 + BlankRun(s, i + 1) ELSE 0

RECURSIVE DecimalValue(_, _, _)
\* The value of the n decimal digits of s from position i on.
DecimalValue(s, i, n) ==
  IF n = 0 THEN 0 ELSE DecimalValue(s, i, n - 1) * 10 + DigitVal(s[i + n - 1])

\* The number that starts at position i of s with n digits; NaN without digits.
NumberAt(s, i, n) ==
  IF n = 0 THEN [nan |-> TRUE, v |-> 0]
  ELSE [nan |-> FALSE, v |-> DecimalValue(s, i, n)]

\* The number that starts at position i of s.
ParseIntFrom(s, i) == NumberAt(s, i, DigitRun(s, i))

\* parseInt(s): the leading digits of s after leading blanks, NaN without any.
ParseInt(s) == ParseIntFrom(s, BlankRun(s, 1) + 1)

(* ------------------------------------------------------------------ *)
(* The `ip` package (iputil): isV4Format, isV6Format, toLong           *)
(* ------------------------------------------------------------------ *)

\* The positions after a match of \d{1,3} that starts at position i.
DigitsEnds(s, i) ==
  {i + k : k \in {n \in 1..3 : \A m \in 0..(n - 1) :
                      i + m <= Len(s) /\ s[i + m] \in Digits}}

\* The positions after a match of "\." that starts at a position of P.
DotEnds(s, P) == {i + 1 : i \in {j \in P : j <= Len(s) /\ s[j] = "."}}

\* The positions after a match of (\d{1,3}\.){3}\d{1,3} that starts at i.
V4Ends(s, i) ==
  LET d1 == DotEnds(s, DigitsEnds(s, i))
      d2 == DotEnds(s, UNION {DigitsEnds(s, j) : j \in d1})
      d3 == DotEnds(s, UNION {DigitsEnds(s, j) : j \in d2})
  IN  UNION {DigitsEnds(s, j) : j \in d3}

\* iputil.isV4Format(s): /^(\d{1,3}\.){3,3}\d{1,3}$/.test(s).
isV4Format(s) == (Len(s) + 1) \in V4Ends(s, 1)

\* The positions after a match of [0-9a-f]{0,4} (case-insensitive) from i.
HexEnds(s, i) ==
  {i + k : k \in {n \in 0..4 : \A m \in 0..(n - 1) :
                      i + m <= Len(s) /\ s[i + m] \in (Digits \cup HexLetters)}}

\* The positions after a match of :{0,2} from i.
ColonEnds(s, i) ==
  {i + k : k \in {n \in 0..2 : \A m \in 0..(n - 1) :
                      i + m <= Len(s) /\ s[i + m] = ":"}}

\* One repetition of ((v4)?[0-9a-f]{0,4}:{0,2}) from any position of P.
V6GroupEnds(s, P) ==
  LET afterV4  == P \cup UNION {V4Ends(s, i) : i \in P}
      afterHex == UNION {HexEnds(s, i) : i \in afterV4}
  IN  UNION {ColonEnds(s, i) : i \in afterHex}

RECURSIVE V6Repeat(_, _, _, _)
\* The positions after 1 to n more repetitions of the group from a position
\* of frontier, with the positions in seen reached already.  The group
\* matches the empty string, so a position reached by fewer repetitions is
\* reached by more.
V6Repeat(s, seen, frontier, n) ==
  IF n = 0 \/ frontier = {} THEN seen
  ELSE LET fresh == V6GroupEnds(s, frontier) \ seen
       IN  V6Repeat(s, seen \cup fresh, fresh, n - 1)

\* Where a match may begin its groups: after an optional leading "::".
V6Starts(s) == {1} \cup (IF OccursAt(s, << ":", ":" >>, 1) THEN {3} ELSE {})

\* Whether the groups may end at the end of s, or before a trailing "::".
V6AtEnd(s, ends) ==
  \/ (Len(s) + 1) \in ends
  \/ \E i \in ends : i = Len(s) - 1 /\ OccursAt(s, << ":", ":" >>, i)

\* iputil.isV6Format(s):
\* /^(::)?(((\d{1,3}\.){3}(\d{1,3}){1})?([0-9a-f]){0,4}:{0,2}){1,8}(::)?$/i.
isV6Format(s) == V6AtEnd(s, V6Repeat(s, V6Starts(s), V6Starts(s), 8))

\* 2^16, the radix of the two halves of an unsigned 32-bit integer.
Half == 256 * 256

\* (u << 8) on 32 bits.
Shl8(u) ==
  << ((u[1] % 256) * 256 + (u[2] \div 256)) % Half, (u[2] % 256) * 256 >>

\* (u + n) on 32 bits, for a natural number n.
AddU32(u, n) ==
  LET lo == u[2] + (n % Half)
  IN  << (u[1] + (n \div Half) + (lo \div Half)) % Half, lo % Half >>

RECURSIVE ToLongFold(_, _, _)
\* The forEach of ip.toLong over the octets from the k-th on: ipl <<= 8;
\* ipl += parseInt(octet).  acc.nan says that ipl is NaN, which `<<=` turns
\* into 0.
ToLongFold(octets, k, acc) ==
  IF k > Len(octets) THEN acc
  ELSE LET shifted == IF acc.nan THEN << 0, 0 >> ELSE Shl8(acc.u)
           p       == ParseInt(octets[k])
           next    == IF p.nan THEN [nan |-> TRUE, u |-> << 0, 0 >>]
                      ELSE [nan |-> FALSE, u |-> AddU32(shifted, p.v)]
       IN  ToLongFold(octets, k + 1, next)

\* ipl >>> 0: NaN becomes 0.
ToUint32(acc) == IF acc.nan THEN << 0, 0 >> ELSE acc.u

\* iputil.toLong(s), as <<hi, lo>>.
toLong(s) ==
  ToUint32(ToLongFold(Split(s, << "." >>), 1, [nan |-> FALSE, u |-> << 0, 0 >>]))

\* a <= b on unsigned 32-bit integers.
LeqU32(a, b) == a[1] < b[1] \/ (a[1] = b[1] /\ a[2] <= b[2])

(* ------------------------------------------------------------------ *)
(* The `range_check` package (rangeCheck): validRange, inRange         *)
(* ------------------------------------------------------------------ *)

\* Whether s is one to three decimal digits and nothing else.
IsOctetText(s) == Len(s) \in 1..3 /\ \A k \in 1..Len(s) : s[k] \in Digits

\* Whether s is a dotted-decimal IPv4 address with every octet at most 255.
IsValidV4(s) ==
  LET parts == Split(s, << "." >>)
  IN  /\ Len(parts) = 4
      /\ \A k \in 1..4 : IsOctetText(parts[k]) /\ ParseInt(parts[k]).v <= 255

\* The four octets of a valid IPv4 address.
OctetsOf(s) == LET parts == Split(s, << "." >>) IN [k \in 1..4 |-> ParseInt(parts[k]).v]

\* rangeCheck.validRange(s): s is <IPv4 address>/<prefix length 0..32>.
validRange(s) ==
  LET parts == Split(s, << "/" >>)
  IN  /\ Len(parts) = 2
      /\ IsValidV4(parts[1])
      /\ Len(parts[2]) \in 1..2
      /\ \A k \in 1..Len(parts[2]) : parts[2][k] \in Digits
      /\ ParseInt(parts[2]).v <= 32

RECURSIVE Pow2(_)
Pow2(n) == IF n = 0 THEN 1 ELSE 2 * Pow2(n - 1)

\* The number of leading bits of the k-th octet that a prefix of n bits covers.
PrefixBitsOfOctet(n, k) ==
  LET left == n - 8 * (k - 1)
  IN  IF left <= 0 THEN 0 ELSE IF left >= 8 THEN 8 ELSE left

\* rangeCheck.inRange(ip, cidr) for a valid cidr: ip is an IPv4 address whose
\* leading prefix-length bits are those of the block; any other ip is outside.
inRange(ip, cidr) ==
  LET parts == Split(cidr, << "/" >>)
      n     == ParseInt(parts[2]).v
  IN  /\ IsValidV4(ip)
      /\ \A k \in 1..4 :
           LET drop == Pow2(8 - PrefixBitsOfOctet(n, k))
           IN  OctetsOf(ip)[k] \div drop = OctetsOf(parts[1])[k] \div drop


(* ------------------------------------------------------------------ *)
(* String literals of ipfilter.js                                      *)
(* ------------------------------------------------------------------ *)

\* 'allow' and 'deny', the mode names the code compares with.
AllowText ==
  << "a", "l", "l", "o", "w" >>

DenyText ==
  << "d", "e", "n", "y" >>

\* The address error() reports when the rule list is empty.
SentinelIp ==
  << "0", ".", "0", ".", "0", ".", "0", "/", "0" >>

\* The marker and the separator of an IPv4-mapped IPv6 address.
MappedMarker ==
  << ":", ":", "f", "f", "f", "f" >>

MappedSeparator ==
  << ":", ":", "f", "f", "f", "f", ":" >>

\* The message prefixes.
DeniedPrefix ==
  << "A", "c", "c", "e", "s", "s", " ", "d", "e", "n", "i", "e", "d", " ",
     "t", "o", " ", "I", "P", " ", "a", "d", "d", "r", "e", "s", "s", ":",
     " " >>

GrantedPrefix ==
  << "A", "c", "c", "e", "s", "s", " ", "g", "r", "a", "n", "t", "e", "d",
     " ", "t", "o", " ", "I", "P", " ", "a", "d", "d", "r", "e", "s", "s",
     ":", " " >>

ExcludedPrefix ==
  << "A", "c", "c", "e", "s", "s", " ", "g", "r", "a", "n", "t", "e", "d",
     " ", "f", "o", "r", " ", "e", "x", "c", "l", "u", "d", "e", "d", " ",
     "p", "a", "t", "h", ":", " " >>

(* ------------------------------------------------------------------ *)
(* Values                                                              *)
(* ------------------------------------------------------------------ *)

\* A rule token: a string, an array of strings, or a number.  type is the
\* token's typeof; str is the text of a string (or of a number), arr the
\* elements of an array.
StringToken(s) == [type |-> "string", str |-> s, arr |-> << >>]

ArrayToken(a) == [type |-> "object", str |-> EmptyString, arr |-> a]

NumberToken(s) == [type |-> "number", str |-> s, arr |-> << >>]

\* The result of testIp: the JavaScript values true, false and undefined.
JsBool(b) == IF b THEN "true" ELSE "false"

\* Truthiness, as the identity predicate of _.some and _.every tests it.
Truthy(r) == r = "true"

\* _.some(results).
Some(results) == \E k \in 1..Len(results) : Truthy(results[k])

\* _.every(results).
Every(results) == \A k \in 1..Len(results) : Truthy(results[k])

(* ------------------------------------------------------------------ *)
(* ipfilter(ips, opts)                                                 *)
(* ------------------------------------------------------------------ *)

\* getIps(): the rule list the source returns at its position pos.  A list
\* given to ipfilter is a source of one position; a provider function is a
\* source that may return another list at each call.  The value false that
\* `ips || false` gives for an absent list is the empty list here: the
\* middleware tests `!_ips || !_ips.length`.
getIps(source, pos) == source.script[pos]

\* The position of the source after one call of getIps.
AfterCall(source, pos) == (pos % Len(source.script)) + 1

RECURSIVE HeaderFold(_, _, _, _)
\* The _.reduce of getClientIp over settings.allowedHeaders from the k-th
\* header on: acc = testIp whenever testIp != ''.
HeaderFold(allowedHeaders, headers, k, acc) ==
  IF k > Len(allowedHeaders) THEN acc
  ELSE HeaderFold(allowedHeaders, headers, k + 1,
                  IF headers[allowedHeaders[k]] # EmptyString
                  THEN headers[allowedHeaders[k]] ELSE acc)

\* if (headerIp) ipAddresses = headerIp.split(','): undefined and '' are
\* falsy and leave ipAddresses empty.
SplitHeader(headerIp) ==
  IF headerIp # EmptyString /\ headerIp # Undefined
  THEN Split(headerIp, << "," >>)
  ELSE << >>

\* if (ipAddresses.length === 0) ipAddresses = [req.connection.remoteAddress].
OrRemoteAddress(ipAddresses, req) ==
  IF Len(ipAddresses) = 0 THEN << req.remoteAddress >> ELSE ipAddresses

\* The addresses getClientIp takes from the headers or the connection,
\* before the map.
RawClientIps(settings, req) ==
  OrRemoteAddress(
    SplitHeader(HeaderFold(settings.allowedHeaders, req.headers, 1, EmptyString)),
    req)

\* pieces[1] of the code: undefined when the separator did not occur.
SecondPiece(pieces) == IF Len(pieces) >= 2 THEN pieces[2] ELSE Undefined

\* The first if of the map of getClientIp.
StripMapped(ipAddress) ==
  IF isV6Format(ipAddress) /\ IndexOf(ipAddress, MappedMarker) # 0
  THEN SecondPiece(Split(ipAddress, MappedSeparator))
  ELSE ipAddress

\* The second if of the map of getClientIp.
StripPort(ipAddress) ==
  IF isV4Format(ipAddress) /\ IndexOf(ipAddress, << ":" >>) # 0
  THEN Split(ipAddress, << ":" >>)[1]
  ELSE ipAddress

\* The body of the map of getClientIp.
NormalizeIp(ipAddress) == StripPort(StripMapped(ipAddress))

\* ipAddresses.map(...).
NormalizeAll(ipAddresses) ==
  [k \in 1..Len(ipAddresses) |-> NormalizeIp(ipAddresses[k])]

\* getClientIp(req), the default settings.detectIp.
getClientIp(settings, req) == NormalizeAll(RawClientIps(settings, req))

testExplicitIp(ip, constraint, mode) ==
  IF ip = constraint THEN JsBool(mode = AllowText) ELSE JsBool(mode = DenyText)

testCidrBlock(ip, constraint, mode) ==
  IF inRange(ip, constraint) THEN JsBool(mode = AllowText)
  ELSE JsBool(mode = DenyText)

\* constraint.length > 1 in the filter of testRange; a number has no length.
LengthAboveOne(c) ==
  CASE c.type = "string" -> Len(c.str) > 1
    [] c.type = "object" -> Len(c.arr) > 1
    [] OTHER -> FALSE

\* constraint[i - 1]: a character of a string, an element of an array,
\* undefined otherwise.
ElementAt(c, i) ==
  CASE c.type = "string" /\ i <= Len(c.str) -> << c.str[i] >>
    [] c.type = "object" /\ i <= Len(c.arr) -> c.arr[i]
    [] OTHER -> Undefined

\* longIp >= startIp && longIp <= endIp.
WithinLongs(startIp, longIp, endIp) ==
  LeqU32(startIp, longIp) /\ LeqU32(longIp, endIp)

\* The predicate of the _.filter of testRange, applied to one element of
\* the whole rule list.
RangeFilter(c, ip) ==
  IF LengthAboveOne(c)
  THEN WithinLongs(toLong(ElementAt(c, 1)), toLong(ip), toLong(ElementAt(c, 2)))
  ELSE ip = ElementAt(c, 1)

\* The _.filter of testRange over a rule list: the indices it keeps.
FilteredSet(list, ip) == {k \in 1..Len(list) : RangeFilter(list[k], ip)}

\* testRange(ip, constraint, mode): the filter runs over the list that a
\* fresh getIps() returns, not over the constraint it was given.
testRange(ip, mode, source, pos) ==
  IF FilteredSet(getIps(source, pos), ip) # {} THEN JsBool(mode = AllowText)
  ELSE JsBool(mode = DenyText)

\* Whether testIp calls getIps for this constraint (through testRange).
TestIpCallsGetIps(constraint) == constraint.type = "object"

\* testIp.call(constraint, ip, mode).
testIp(constraint, ip, mode, source, pos) ==
  CASE constraint.type = "string" ->
         IF validRange(constraint.str)
         THEN testCidrBlock(ip, constraint.str, mode)
         ELSE testExplicitIp(ip, constraint.str, mode)
    [] constraint.type = "object" -> testRange(ip, mode, source, pos)
    [] OTHER -> "undefined"

\* The result r of testIp for one element, before those of the elements
\* after it; fetched is what getIps returned to that testIp, if called.
InvokeCons(r, fetched, rest) ==
  [results |-> << r >> \o rest.results,
   pos     |-> rest.pos,
   fetched |-> fetched \o rest.fetched]

RECURSIVE Invoke(_, _, _, _, _, _)
\* _.invoke(list, testIp, ip, mode) from the k-th element on: the results,
\* the position of the source afterwards and the lists testRange fetched.
Invoke(list, k, ip, mode, source, pos) ==
  IF k > Len(list) THEN [results |-> << >>, pos |-> pos, fetched |-> << >>]
  ELSE InvokeCons(
         testIp(list[k], ip, mode, source, pos),
         IF TestIpCallsGetIps(list[k]) THEN << getIps(source, pos) >> ELSE << >>,
         Invoke(list, k + 1, ip, mode, source,
                IF TestIpCallsGetIps(list[k]) THEN AfterCall(source, pos) ELSE pos))

\* The combinator of matchClientIp over the results of the rules.
CombineRules(mode, results) ==
  IF mode = AllowText THEN Some(results) ELSE Every(results)

\* What matchClientIp returns and leaves behind, from the list it fetched
\* and the outcome of _.invoke.
MatchResult(mode, list, inv) ==
  [result  |-> CombineRules(mode, inv.results),
   results |-> inv.results,
   pos     |-> inv.pos,
   fetched |-> << list >> \o inv.fetched]

\* matchClientIp(ip).
matchClientIp(settings, ip, source, pos) ==
  MatchResult(ToLowerCase(settings.mode), getIps(source, pos),
              Invoke(getIps(source, pos), 1, ip, ToLowerCase(settings.mode),
                     source, AfterCall(source, pos)))

\* The outcome m of matchClientIp for one address, before those of the
\* addresses after it.
MatchAllCons(m, rest) ==
  [matchResults |-> << JsBool(m.result) >> \o rest.matchResults,
   ruleResults  |-> << m.results >> \o rest.ruleResults,
   pos          |-> rest.pos,
   fetched      |-> m.fetched \o rest.fetched]

RECURSIVE MatchAll(_, _, _, _, _)
\* The rest of ips.map(matchClientIp) once the k-th address gave m.
MatchAllAfter(settings, ips, k, source, m) ==
  MatchAllCons(m, MatchAll(settings, ips, k + 1, source, m.pos))

\* ips.map(matchClientIp) from the k-th address on.
MatchAll(settings, ips, k, source, pos) ==
  IF k > Len(ips)
  THEN [matchResults |-> << >>, ruleResults |-> << >>, pos |-> pos,
        fetched |-> << >>]
  ELSE MatchAllAfter(settings, ips, k, source,
                     matchClientIp(settings, ips[k], source, pos))

\* A test that the pattern is the whole url, not a search in it.
RegexTest_wholeUrl(exclude, url) == url = exclude

\* new RegExp(exclude).test(url), for a pattern of literal characters: a
\* search anywhere in the url.
RegexTest(exclude, url) == IndexOf(url, exclude) # 0

\* The _.filter of the middleware over settings.excluding.
ExcludingResults(excluding, url) ==
  SelectSeq(excluding, LAMBDA exclude : RegexTest(exclude, url))

\* A grant as soon as one address passes.
AllMatch_some(matchResults) == Some(matchResults)

\* Whether the middleware grants the request, from its matchResults.
AllMatch(matchResults) == Every(matchResults)

\* Only the addresses that failed.
DeniedIps_failingOnly(ips, matchResults) ==
  LET failing == {k \in 1..Len(ips) : ~Truthy(matchResults[k])}
      kth[n \in 1..Cardinality(failing)] ==
        CHOOSE k \in failing : Cardinality({j \in failing : j < k}) = n - 1
  IN  [n \in 1..Cardinality(failing) |-> ips[kth[n]]]

\* The addresses error() is given when the request is denied after matching.
DeniedIps(ips, matchResults) == ips

\* error(ips, next): the message of the IpDeniedError handed to next.
ErrorMessage(ips) == DeniedPrefix \o Join(ips, << "," >>)

\* settings.mode == 'allow' in the branch of the empty rule list.
EmptyListDenies(settings) == settings.mode = AllowText

\* What one call of the middleware leaves behind.
\*   verdict      "Proceed" for next(), "Denied" for next(err)
\*   errIps       the addresses given to error()
\*   errMessage   the message of the error
\*   logged       the messages given to settings.logF
\*   stage        the return the call left by
\*   ips          the addresses settings.detectIp returned
\*   matchResults one result of matchClientIp for each address
\*   ruleResults  the results of testIp for each address
\*   fetched      the lists getIps returned, in call order
\*   detectCalls  the number of calls of settings.detectIp
\*   pos          the position of the source afterwards
Outcome(verdict, errIps, logged, stage, ips, all, fetched, detectCalls, pos) ==
  [verdict |-> verdict, errIps |-> errIps,
   errMessage |-> IF verdict = "Denied" THEN ErrorMessage(errIps) ELSE EmptyString,
   logged |-> logged, stage |-> stage, ips |-> ips,
   matchResults |-> all.matchResults, ruleResults |-> all.ruleResults,
   fetched |-> fetched \o all.fetched, detectCalls |-> detectCalls, pos |-> pos]

\* No address was matched.
NoMatches == [matchResults |-> << >>, ruleResults |-> << >>, fetched |-> << >>]

\* The return for an excluded path.
ExcludedCall(results, pos) ==
  Outcome("Proceed", << >>, << ExcludedPrefix \o results[1] >>, "excluded",
          << >>, NoMatches, << >>, 0, pos)

\* The branch of the empty rule list.
EmptyListCall(settings, source, pos, list) ==
  IF EmptyListDenies(settings)
  THEN Outcome("Denied", << SentinelIp >>, << >>, "empty", << >>, NoMatches,
               << list >>, 0, AfterCall(source, pos))
  ELSE Outcome("Proceed", << >>, << >>, "empty", << >>, NoMatches,
               << list >>, 0, AfterCall(source, pos))

\* The end of the middleware, from the addresses and their match results.
MatchedCall(list, ips, all) ==
  IF AllMatch(all.matchResults)
  THEN Outcome("Proceed", << >>, << GrantedPrefix \o Join(ips, << "," >>) >>,
               "matched", ips, all, << list >>, 1, all.pos)
  ELSE Outcome("Denied", DeniedIps(ips, all.matchResults),
               << DeniedPrefix \o Join(ips, << "," >>) >>,
               "matched", ips, all, << list >>, 1, all.pos)

\* The middleware from settings.detectIp(req) on, with the addresses it gave.
DetectedCall(settings, source, pos, list, ips) ==
  MatchedCall(list, ips, MatchAll(settings, ips, 1, source, AfterCall(source, pos)))

\* The middleware from `var _ips = getIps()` on, with the list it gave.
FetchedCall(settings, source, pos, req, list) ==
  IF Len(list) = 0
  THEN EmptyListCall(settings, source, pos, list)
  ELSE DetectedCall(settings, source, pos, list, getClientIp(settings, req))

\* The middleware, function(req, res, next).
Middleware(settings, source, pos, req) ==
  IF /\ Len(settings.excluding) > 0
     /\ Len(ExcludingResults(settings.excluding, req.url)) > 0
  THEN ExcludedCall(ExcludingResults(settings.excluding, req.url), pos)
  ELSE FetchedCall(settings, source, pos, req, getIps(source, pos))

(* ------------------------------------------------------------------ *)
(* The inputs of the model                                             *)
(* ------------------------------------------------------------------ *)

\* Addresses, as text.
Ip_127_0_0_1 == << "1", "2", "7", ".", "0", ".", "0", ".", "1" >>

Ip_mapped_127_0_0_1 == << ":", ":", "f", "f", "f", "f", ":", "1", "2", "7", ".", "0", ".", "0", ".", "1" >>

Ip_127_0_0_1_port == << "1", "2", "7", ".", "0", ".", "0", ".", "1", ":", "5", "4", "3", "2", "1" >>

Ip_0_0_0_1 == << "0", ".", "0", ".", "0", ".", "1" >>

Ip_10_0_0_1 == << "1", "0", ".", "0", ".", "0", ".", "1" >>

Ip_10_0_0_5 == << "1", "0", ".", "0", ".", "0", ".", "5" >>

Ip_10_0_0_10 == << "1", "0", ".", "0", ".", "0", ".", "1", "0" >>

Ip_8_8_8_8 == << "8", ".", "8", ".", "8", ".", "8" >>

Cidr_10_0_0_0_24 == << "1", "0", ".", "0", ".", "0", ".", "0", "/", "2", "4" >>

\* The tokens rule lists are made of: an exact address, a CIDR block, a
\* two-element range, a one-element range and a malformed token (a number).
TokenPool ==
  << StringToken(Ip_127_0_0_1),
     StringToken(Cidr_10_0_0_0_24),
     ArrayToken(<< Ip_10_0_0_1, Ip_10_0_0_10 >>),
     ArrayToken(<< Ip_8_8_8_8 >>),
     NumberToken(<< "5" >>) >>

RECURSIVE PickTokens(_, _)
\* The tokens of TokenPool at the indices of S from k on, in pool order.
PickTokens(S, k) ==
  IF k > Len(TokenPool) THEN << >>
  ELSE (IF k \in S THEN << TokenPool[k] >> ELSE << >>) \o PickTokens(S, k + 1)

\* The rule lists: the empty list and the lists of at most MaxRules tokens.
RuleLists ==
  {PickTokens(S, 1) : S \in {T \in SUBSET (1..Len(TokenPool)) : Cardinality(T) <= MaxRules}}

\* Providers whose result changes between calls: the lists they return in
\* turn.
ProviderScripts ==
  { << PickTokens({1}, 1), PickTokens({2}, 1) >>,
    << PickTokens({1}, 1), PickTokens({3}, 1) >>,
    << PickTokens({}, 1), PickTokens({1}, 1) >> }

\* The rule sources: a list, or a provider function.
Sources ==
  {[dynamic |-> FALSE, script |-> << list >>] : list \in RuleLists}
    \cup {[dynamic |-> TRUE, script |-> script] : script \in ProviderScripts}

\* settings.mode, in several spellings.
Modes == { << "a", "l", "l", "o", "w" >>,
           << "d", "e", "n", "y" >>,
           << "A", "L", "L", "O", "W" >>,
           << "D", "e", "n", "y" >> }

HeaderNames == {"x-forwarded-for", "x-real-ip"}

\* settings.allowedHeaders: the lists of different header names.
HeaderLists ==
  {hs \in UNION {[1..n -> HeaderNames] : n \in 0..Cardinality(HeaderNames)} :
     \A i, j \in DOMAIN hs : i # j => hs[i] # hs[j]}

PublicPattern == << "/", "p", "u", "b", "l", "i", "c" >>

\* settings.excluding.
ExcludingLists == { << >>, << PublicPattern >> }

\* settings after _.defaults: log is true, logLevel is not set, detectIp is
\* getClientIp.
SettingsSet ==
  [mode : Modes, allowedHeaders : HeaderLists, excluding : ExcludingLists]

\* The values of the x-forwarded-for header; an absent header is undefined.
ForwardedValues ==
  { Undefined, EmptyString, Ip_127_0_0_1 \o << "," >> \o Ip_8_8_8_8 }

\* The values of the x-real-ip header.
RealIpValues == { Undefined, Ip_10_0_0_5 }

\* req.connection.remoteAddress.
RemoteAddresses == { Ip_mapped_127_0_0_1, Ip_127_0_0_1_port, Ip_0_0_0_1 }

\* req.url.
Urls == { << "/", "a", "d", "m", "i", "n" >>,
          << "/", "v", "1", "/", "p", "u", "b", "l", "i", "c", "/", "x" >> }

Requests ==
  {[headers |-> [h \in HeaderNames |->
                   IF h = "x-forwarded-for" THEN f ELSE r],
    remoteAddress |-> a, url |-> u] :
     f \in ForwardedValues, r \in RealIpValues, a \in RemoteAddresses, u \in Urls}

(* ------------------------------------------------------------------ *)
(* The state machine                                                   *)
(* ------------------------------------------------------------------ *)

VARIABLES
  settings,   \* the settings of the filter instance
  source,     \* its rule source
  pos,        \* the position of the source: which list its next call returns
  req,        \* the request the middleware was last called with
  pos0,       \* the position of the source when that call began
  out         \* what that call left behind (see Middleware)

vars == << settings, source, pos, req, pos0, out >>

NoRequest ==
  [headers |-> [h \in HeaderNames |-> Undefined],
   remoteAddress |-> Undefined, url |-> EmptyString]

NoCall ==
  [verdict |-> "none", errIps |-> << >>, errMessage |-> EmptyString,
   logged |-> << >>, stage |-> "none", ips |-> << >>, matchResults |-> << >>,
   ruleResults |-> << >>, fetched |-> << >>, detectCalls |-> 0, pos |-> 1]

\* ipfilter(ips, opts): a filter instance that has handled no request.
Init ==
  /\ settings \in SettingsSet
  /\ source \in Sources
  /\ pos = 1
  /\ req = NoRequest
  /\ pos0 = 1
  /\ out = NoCall

\* The application calls the middleware with a request r.
Receive(r) ==
  /\ out.stage # "called"
  /\ req' = r
  /\ pos0' = pos
  /\ out' = [NoCall EXCEPT !.stage = "called", !.pos = pos]
  /\ UNCHANGED << settings, source, pos >>

\* The body of the middleware, function(req, res, next), runs to its return.
Handle ==
  /\ out.stage = "called"
  /\ out' = Middleware(settings, source, pos, req)
  /\ pos' = out'.pos
  /\ UNCHANGED << settings, source, req, pos0 >>

Next == (\E r \in Requests : Receive(r)) \/ Handle

Spec == Init /\ [][Next]_vars

(* ------------------------------------------------------------------ *)
(* Properties                                                          *)
(* ------------------------------------------------------------------ *)

\* The middleware has returned from its last call.
Returned == out.stage \in {"excluded", "empty", "matched"}

\* The mode the filter was configured with, whatever its letter case.
ModeIs(text) == ToLowerCase(settings.mode) = text

\* A well-formed token: a string, or an array of one or two strings.
WellFormed(token) ==
  \/ token.type = "string"
  \/ token.type = "object" /\ Len(token.arr) \in {1, 2}

\* Whether an address matches one well-formed token, taken on its own: an
\* exact address by equality, a CIDR block by membership, a two-element
\* range by its bounds as 32-bit integers, a one-element range by equality.
TokenMatches(token, ip) ==
  CASE token.type = "string" /\ validRange(token.str) -> inRange(ip, token.str)
    [] token.type = "string" /\ ~validRange(token.str) -> ip = token.str
    [] token.type = "object" /\ Len(token.arr) = 2 ->
         WithinLongs(toLong(token.arr[1]), toLong(ip), toLong(token.arr[2]))
    [] OTHER -> ip = token.arr[1]

\* Whether an address is to be accepted under a rule list: under allow it
\* matches some token, under deny it matches none.
AcceptedBy(list, ip) ==
  IF ModeIs(AllowText)
  THEN \E k \in 1..Len(list) : TokenMatches(list[k], ip)
  ELSE \A k \in 1..Len(list) : ~TokenMatches(list[k], ip)

\* C1: with a rule list of well-formed tokens, matchClientIp accepts an
\* address under allow iff the address matches at least one token, and
\* under deny iff it matches no token.
C1_RulesCombineByMode ==
  (/\ out.stage = "matched"
   /\ ~source.dynamic
   /\ \A k \in 1..Len(source.script[1]) : WellFormed(source.script[1][k]))
  => \A i \in 1..Len(out.ips) :
       out.matchResults[i] = JsBool(AcceptedBy(source.script[1], out.ips[i]))

\* C2: with a non-empty rule list the request proceeds iff every candidate
\* address passes matchClientIp, under allow and under deny alike; every
\* candidate address is evaluated.
C2_AllCandidatesMustPass ==
  out.stage = "matched"
  => /\ Len(out.fetched[1]) > 0
     /\ Len(out.matchResults) = Len(out.ips)
     /\ (out.verdict = "Proceed") <=> (\A i \in 1..Len(out.ips) : Truthy(out.matchResults[i]))
     /\ (out.verdict = "Denied") <=> (\E i \in 1..Len(out.ips) : ~Truthy(out.matchResults[i]))
     /\ ~source.dynamic =>
          \A i \in 1..Len(out.ips) :
            out.matchResults[i]
              = JsBool(matchClientIp(settings, out.ips[i], source, 1).result)

\* A request with two candidate addresses under allow, the first of which
\* passes and the second of which fails, is denied.
C2_Witness ==
  /\ out.stage = "matched"
  /\ settings.mode = AllowText
  /\ out.ips = << Ip_127_0_0_1, Ip_8_8_8_8 >>
  /\ out.matchResults = << "true", "false" >>
  /\ out.verdict = "Denied"

\* C3: with an empty rule list the verdict depends on the mode alone: under
\* allow the request is denied with the address 0.0.0.0/0, under deny it
\* proceeds.
C3_EmptyListByMode ==
  out.stage = "empty"
  => /\ ModeIs(AllowText) => out.verdict = "Denied" /\ out.errIps = << SentinelIp >>
     /\ ModeIs(DenyText) => out.verdict = "Proceed"

\* C4: the verdict of a filter configured with any letter case of a mode
\* name is the verdict of the filter configured with the lowercase name.
C4_ModeCaseInsensitive ==
  Returned
  => out.verdict
       = Middleware([settings EXCEPT !.mode = ToLowerCase(settings.mode)],
                    source, pos0, req).verdict

\* An exclusion pattern occurs somewhere in the url of the request.
SomePatternInUrl ==
  \E k \in 1..Len(settings.excluding) :
    \E i \in 1..Len(req.url) :
      /\ i + Len(settings.excluding[k]) - 1 <= Len(req.url)
      /\ \A j \in 1..Len(settings.excluding[k]) :
           req.url[i + j - 1] = settings.excluding[k][j]

\* C5: when an exclusion pattern matches the url, the request proceeds
\* whatever the mode, the rule list and the addresses, and neither the rule
\* source is fetched nor an address resolved or evaluated.
C5_ExclusionShortCircuits ==
  (Returned /\ SomePatternInUrl)
  => /\ out.verdict = "Proceed"
     /\ out.stage = "excluded"
     /\ out.fetched = << >>
     /\ pos = pos0
     /\ out.detectCalls = 0
     /\ out.ips = << >>
     /\ out.matchResults = << >>

\* An excluded request proceeds although the filter allows nobody: the mode
\* is allow and the rule list is empty.
C5_Witness ==
  /\ out.stage = "excluded"
  /\ out.verdict = "Proceed"
  /\ SomePatternInUrl
  /\ settings.mode = AllowText
  /\ source.script = << << >> >>
  /\ out.fetched = << >>

\* Whether a header value is a non-empty string.
NonEmptyValue(v) == v # Undefined /\ v # EmptyString

\* The addresses resolution is to start from: the value of the first
\* allowed header with a non-empty value, split on ",", or else the peer
\* address.
FirstHeaderIps ==
  LET hs   == settings.allowedHeaders
      hits == {k \in 1..Len(hs) : NonEmptyValue(req.headers[hs[k]])}
  IN  IF hits = {} THEN << req.remoteAddress >>
      ELSE Split(req.headers[hs[CHOOSE k \in hits : \A j \in hits : k <= j]],
                 << "," >>)

\* C6: the candidate addresses come from the first allowed header whose
\* value is non-empty, and from the peer address only when no allowed header
\* has a non-empty value.
C6_FirstHeaderWins ==
  out.stage = "matched" => out.ips = NormalizeAll(FirstHeaderIps)

\* C7: a provider is called once in a call of the middleware, and the whole
\* decision is computed from the one list it returned.
C7_ProviderCalledOnce ==
  (source.dynamic /\ out.stage \in {"empty", "matched"})
  => /\ Len(out.fetched) = 1
     /\ \A i, j \in 1..Len(out.fetched) : out.fetched[i] = out.fetched[j]

\* Whether s is <IPv4 address>:<digits>.
HasPort(s) ==
  \E i \in 1..Len(s) :
    /\ s[i] = ":"
    /\ isV4Format(SubSeq(s, 1, i - 1))
    /\ i < Len(s)
    /\ \A j \in (i + 1)..Len(s) : s[j] \in Digits

\* Whether s begins with "::ffff:".
HasMappedPrefix(s) ==
  Len(s) >= Len(MappedSeparator) /\ SubSeq(s, 1, Len(MappedSeparator)) = MappedSeparator

\* C8: no candidate address handed to matchClientIp carries the prefix
\* "::ffff:" or a trailing port, and there are as many candidates, in the
\* same order, as addresses resolved.
C8_CandidatesNormalized ==
  out.stage = "matched"
  => /\ Len(out.ips) = Len(RawClientIps(settings, req))
     /\ \A i \in 1..Len(out.ips) :
          /\ ~HasMappedPrefix(out.ips[i])
          /\ ~HasPort(out.ips[i])
          /\ \/ RawClientIps(settings, req)[i] = out.ips[i]
             \/ RawClientIps(settings, req)[i] = MappedSeparator \o out.ips[i]
             \/ /\ HasPort(RawClientIps(settings, req)[i])
                /\ isV4Format(out.ips[i])
                /\ SubSeq(RawClientIps(settings, req)[i], 1, Len(out.ips[i]) + 1)
                     = out.ips[i] \o << ":" >>

\* C9: a request rejected after its candidates were evaluated is denied
\* with all the candidates, passing and failing, in resolution order, in
\* the message "Access denied to IP address: " and the comma-joined
\* addresses; a rejection is never turned into a Proceed.
C9_DenialCarriesAllCandidates ==
  /\ (out.stage = "matched" /\ out.verdict = "Denied")
     => /\ out.errIps = getClientIp(settings, req)
        /\ Len(out.errIps) = Len(out.matchResults)
        /\ out.errMessage = DeniedPrefix \o Join(getClientIp(settings, req), << "," >>)
  /\ (out.stage = "matched" /\ \E i \in 1..Len(out.matchResults) : out.matchResults[i] # "true")
     => /\ out.verdict = "Denied"
        /\ Len(out.errMessage) > Len(DeniedPrefix)

\* A denial of two candidates, one passing and one failing, names both.
C9_Witness ==
  /\ out.stage = "matched"
  /\ out.verdict = "Denied"
  /\ out.matchResults = << "true", "false" >>
  /\ out.errIps = << Ip_127_0_0_1, Ip_8_8_8_8 >>
  /\ out.errMessage = 
      << "A", "c", "c", "e", "s", "s", " ", "d", "e", "n", "i",
         "e", "d", " ", "t", "o", " ", "I", "P", " ", "a",
         "d", "d", "r", "e", "s", "s", ":", " ", "1", "2",
         "7", ".", "0", ".", "0", ".", "1", ",", "8", ".",
         "8", ".", "8", ".", "8" >>

\* C10: a rule list with a malformed token (neither a string nor an array
\* of one or two strings) does not end in an ordinary verdict when it is
\* evaluated.
C10_MalformedTokenSurfaced ==
  (/\ out.stage = "matched"
   /\ \E i \in 1..Len(out.fetched) :
        \E k \in 1..Len(out.fetched[i]) : ~WellFormed(out.fetched[i][k]))
  => out.verdict \notin {"Proceed", "Denied"}

====
